---- MODULE Spec2Model ----
(***************************************************************************)
(* Model of the AutoDocGen2 backend: the Trello webhook reconciler run at  *)
(* startup (app/main.py startup_all), the token registration endpoint      *)
(* (trello_save_token), the webhook dispatcher (POST /pm handlers) and the *)
(* generated-document cache (get_generated_doc, run_workflow).             *)
(*                                                                         *)
(* MongoDB collections are sequences of rows in natural (insertion) order; *)
(* find_one returns the first matching row and update_one(upsert=True)     *)
(* changes the first matching row or appends one.  The Trello provider is  *)
(* external state: the boards each token sees and a bag of webhook         *)
(* registrations per (token, board).                                       *)
(***************************************************************************)
EXTENDS Integers, Sequences, FiniteSets, Bags, TLC

\* ------------------------------------------------------------------
\* Value universes and bounds
\* ------------------------------------------------------------------
Users == {"u1", "u2"}
Tokens == {"t1", "t2"}
Boards == {"b1", "b2"}
Templates == {"default", "custom"}
\* what the Generation Collaborator returns: every generation produces its
\* own artifact, named here by its position in the Document Cache
ArtifactNames == <<"a1", "a2", "a3", "a4">>
\* the markdown text of each artifact, line by line: hashes is the number of
\* '#' characters the line starts with, text what follows them
Line(hashes, text) == [hashes |-> hashes, text |-> text]
ArtifactText(art) ==
    IF art = "a1" THEN <<Line(1, "Title"), Line(2, "Overview"), Line(0, "body"),
                         Line(2, "Scope")>>
    ELSE IF art = "a2" THEN <<Line(2, "Overview"), Line(3, "Details")>>
    ELSE IF art = "a3" THEN <<Line(2, ""), Line(0, "body")>>
    ELSE IF art = "a4" THEN <<Line(0, "body"), Line(2, "")>>
    ELSE <<>>
\* the diagrams of each artifact: heading -> diagram, a diagram holding its
\* text and, for some, the raw base64 image as a sequence of chunks
ArtifactDiagrams(art) ==
    IF art \in {"a1", "a3"}
    THEN [Overview |-> [diagram |-> "graph", image |-> <<"png_" \o art>>],
          Scope |-> [diagram |-> "flow"]]
    ELSE [Overview |-> [diagram |-> "graph"]]
\* the order in which the provider lists boards
BoardOrder == <<"b1", "b2">>

\* the boards every token sees initially, and the (token, board) pairs whose
\* visibility changes over time
InitialBoards == {"b1"}
VolatileTokens == {"t1"}
VolatileBoards == {"b2"}

\* the projects for which documents are requested over HTTP
RequestProjects == {"b1"}

\* at most this many registrations per (token, board) are tracked
MaxRegs == 1
\* at most this many execute_workflow calls are in flight
MaxTasks == 2
\* at most this many rows in db["notifications"]
MaxNotifs == 2
\* at most this many background tasks are pending
MaxBackground == 1
\* at most this many rows in db["generated_docs"]
MaxDocs == 2

TRELLO_CALLBACK_URL == "cb"
OTHER_CALLBACK_URL == "cb_other"

NoDesc == "no_desc"
BoardName(b) == IF b = "b1" THEN "Sprint" ELSE "Backlog"
BoardDesc(b) == IF b = "b1" THEN "desc1" ELSE "desc2"

VARIABLES
    tokens,           \* db["tokens"]: sequence of [user_id, trello_token]
    board_user_map,   \* db["board_user_map"]: sequence of rows
    generated_docs,   \* db["generated_docs"]: sequence of rows
    trelloBoards,     \* provider: [Tokens -> SUBSET Boards], open boards per token
    trelloWebhooks,   \* provider: [Tokens \X Boards -> Nat], registrations with our callback
    phase,            \* "startup" while startup_all runs, else "serving"
    pc,               \* position inside startup_all
    users,            \* startup_all: result of get_all_user_tokens
    uIdx,             \* startup_all: index of the current user
    boards,           \* startup_all: boards fetched for the current user
    bIdx,             \* startup_all: index of the current board
    existing,         \* startup_all: result of the registration listing
    tasks,            \* execute_workflow calls in flight (a bag)
    response,         \* the response returned by the step just taken
    lastUpsert,       \* history: owner written by the latest upsert of each board
    replaced,         \* history: boards whose owner the step just taken replaced
    sweepStatus,      \* history: how the latest finished sweep ended, "none" after
                      \*          any later change of accounts or boards
    curClean,         \* history: no provider call failed in the sweep in progress
    sweptHooks,       \* history: registrations when the latest sweep finished
    notifications,    \* db["notifications"]: sequence of rows
    background        \* background tasks added by the notification handlers (a bag)

dbVars == <<tokens, board_user_map, generated_docs>>
providerVars == <<trelloBoards, trelloWebhooks>>
sweepVars == <<pc, users, uIdx, boards, bIdx, existing>>
histVars == <<lastUpsert, replaced, sweepStatus, curClean, sweptHooks>>
notifyVars == <<notifications, background>>
vars == <<tokens, board_user_map, generated_docs, trelloBoards, trelloWebhooks,
          phase, pc, users, uIdx, boards, bIdx, existing, tasks, response,
          lastUpsert, replaced, sweepStatus, curClean, sweptHooks,
          notifications, background>>

\* ------------------------------------------------------------------
\* Collections
\* ------------------------------------------------------------------
\* index of the first row of coll with row[field] = value, 0 when none
FirstIdx(coll, field, value) ==
    IF \E i \in 1..Len(coll) : coll[i][field] = value
    THEN CHOOSE i \in 1..Len(coll) :
            /\ coll[i][field] = value
            /\ \A j \in 1..(i - 1) : coll[j][field] # value
    ELSE 0

\* db["tokens"].update_one({"user_id": u}, {"$set": {"trello_token": t}}, upsert=True)
save_user_token(coll, user_id, trello_token) ==
    LET i == FirstIdx(coll, "user_id", user_id) IN
    IF i = 0
    THEN Append(coll, [user_id |-> user_id, trello_token |-> trello_token])
    ELSE [coll EXCEPT ![i].trello_token = trello_token]

\* db["tokens"].find_one({"user_id": u}) -> token or "" (None)
get_user_token(coll, user_id) ==
    LET i == FirstIdx(coll, "user_id", user_id) IN
    IF i = 0 THEN "" ELSE coll[i].trello_token

\* db["tokens"].find({}) as a list
get_all_user_tokens(coll) == coll

\* the startup upsert as a plain insert_one
map_board_startup_insert(coll, board_id, user_id, board_name) ==
    Append(coll, [board_id |-> board_id, user_id |-> user_id,
                  board_name |-> board_name, board_desc |-> NoDesc])

\* the startup upsert also writing an empty description
map_board_startup_desc(coll, board_id, user_id, board_name) ==
    LET i == FirstIdx(coll, "board_id", board_id) IN
    IF i = 0
    THEN Append(coll, [board_id |-> board_id, user_id |-> user_id,
                       board_name |-> board_name, board_desc |-> NoDesc])
    ELSE [coll EXCEPT ![i].user_id = user_id, ![i].board_name = board_name,
                      ![i].board_desc = NoDesc]

\* db["board_user_map"].update_one({"board_id": b},
\*     {"$set": {"user_id": u, "board_name": n}}, upsert=True)      (startup_all)
map_board_startup(coll, board_id, user_id, board_name) ==
    LET i == FirstIdx(coll, "board_id", board_id) IN
    IF i = 0
    THEN Append(coll, [board_id |-> board_id, user_id |-> user_id,
                       board_name |-> board_name, board_desc |-> NoDesc])
    ELSE [coll EXCEPT ![i].user_id = user_id, ![i].board_name = board_name]

\* the token registration upsert leaving the owner of an existing row as it is
\* ($setOnInsert for user_id)
map_board_save_token_keep_owner(coll, board_id, user_id, board_name, board_desc) ==
    LET i == FirstIdx(coll, "board_id", board_id) IN
    IF i = 0
    THEN Append(coll, [board_id |-> board_id, user_id |-> user_id,
                       board_name |-> board_name, board_desc |-> board_desc])
    ELSE [coll EXCEPT ![i].board_name = board_name, ![i].board_desc = board_desc]

\* db["board_user_map"].update_one({"board_id": b},
\*     {"$set": {"user_id": u, "board_name": n, "board_desc": d}}, upsert=True)
\*                                                            (trello_save_token)
map_board_save_token(coll, board_id, user_id, board_name, board_desc) ==
    LET i == FirstIdx(coll, "board_id", board_id) IN
    IF i = 0
    THEN Append(coll, [board_id |-> board_id, user_id |-> user_id,
                       board_name |-> board_name, board_desc |-> board_desc])
    ELSE [coll EXCEPT ![i].user_id = user_id, ![i].board_name = board_name,
                      ![i].board_desc = board_desc]

\* owner of the first row for a board, "" when the board has no row
OwnerOf(coll, board_id) ==
    LET i == FirstIdx(coll, "board_id", board_id) IN
    IF i = 0 THEN "" ELSE coll[i].user_id

\* ------------------------------------------------------------------
\* Provider (Trello)
\* ------------------------------------------------------------------
\* GET /1/members/me/boards for a token: the open boards in provider order
FetchBoards(t) ==
    IF t \in Tokens
    THEN SelectSeq(BoardOrder, LAMBDA b : b \in trelloBoards[t])
    ELSE <<>>

\* GET /1/tokens/{token}/webhooks: the registrations created with this token,
\* as a set of [callbackURL, idModel]; foreign is a set of boards for which the
\* token also has a registration with another callback URL
ListWebhooks(t, foreign) ==
    {[callbackURL |-> TRELLO_CALLBACK_URL, idModel |-> b] :
        b \in {x \in Boards : trelloWebhooks[<<t, x>>] > 0}}
    \cup {[callbackURL |-> OTHER_CALLBACK_URL, idModel |-> b] : b \in foreign}

\* the existence check comparing idModel with the board's name
WebhookExists_ByName(listing, board_id) ==
    \E w \in listing :
        w.callbackURL = TRELLO_CALLBACK_URL /\ w.idModel = BoardName(board_id)

\* the existence check comparing callbackURL with another URL than the one
\* used for registration
WebhookExists_OtherCallback(listing, board_id) ==
    \E w \in listing :
        w.callbackURL = OTHER_CALLBACK_URL /\ w.idModel = board_id

\* any(w.get("callbackURL") == TRELLO_CALLBACK_URL and w.get("idModel") == board_id ...)
WebhookExists(listing, board_id) ==
    \E w \in listing :
        w.callbackURL = TRELLO_CALLBACK_URL /\ w.idModel = board_id

NoListing == [ok |-> FALSE, hooks |-> {}]
NoHooks == [k \in Tokens \X Boards |-> 0]

\* what a handler returns: HTTP status code, the fields of the JSON body
Resp(op, code, status, message, count, doc) ==
    [op |-> op, code |-> code, status |-> status, message |-> message,
     count |-> count, doc |-> doc]

\* the step just taken returned no response
NoResponse == Resp("none", 0, "none", "", 0, "")

Init ==
    /\ tokens = <<>>
    /\ board_user_map = <<>>
    /\ generated_docs = <<>>
    /\ trelloBoards = [t \in Tokens |-> InitialBoards]
    /\ trelloWebhooks = NoHooks
    /\ phase = "serving"
    /\ pc = "idle"
    /\ users = <<>>
    /\ uIdx = 0
    /\ boards = <<>>
    /\ bIdx = 0
    /\ existing = NoListing
    /\ tasks = EmptyBag
    /\ response = NoResponse
    /\ lastUpsert = [b \in Boards |-> ""]
    /\ replaced = {}
    /\ sweepStatus = "none"
    /\ curClean = TRUE
    /\ sweptHooks = NoHooks
    /\ notifications = <<>>
    /\ background = EmptyBag

\* ------------------------------------------------------------------
\* startup_all: the reconciliation sweep (app/main.py 115-188)
\* ------------------------------------------------------------------
CurToken == users[uIdx].trello_token
CurUser == users[uIdx].user_id
CurBoard == boards[bIdx]

\* the process starts, or restarts after shutdown_db_client (lines 191-196):
\* tasks in flight are abandoned; lines 117-126: connect, read every stored
\* credential, return when there is none
Startup ==
    /\ phase # "startup"
    /\ users' = get_all_user_tokens(tokens)
    /\ IF users' = <<>>
       THEN /\ phase' = "serving"
            /\ pc' = "idle"
            /\ uIdx' = 0
            /\ sweepStatus' = "clean"
            /\ sweptHooks' = trelloWebhooks
       ELSE /\ phase' = "startup"
            /\ pc' = "user"
            /\ uIdx' = 1
            /\ UNCHANGED <<sweepStatus, sweptHooks>>
    /\ boards' = <<>>
    /\ bIdx' = 0
    /\ existing' = NoListing
    /\ tasks' = EmptyBag
    /\ curClean' = TRUE
    /\ response' = NoResponse
    /\ replaced' = {}
    /\ background' = EmptyBag
    /\ UNCHANGED <<notifications, dbVars, providerVars, lastUpsert>>

\* line 129: the loop over users is exhausted, startup_all returns
SweepDone ==
    /\ phase = "startup" /\ pc = "user"
    /\ uIdx > Len(users)
    /\ phase' = "serving"
    /\ pc' = "idle"
    /\ users' = <<>>
    /\ uIdx' = 0
    /\ sweepStatus' = IF curClean THEN "clean" ELSE "done"
    /\ sweptHooks' = trelloWebhooks
    /\ curClean' = TRUE
    /\ response' = NoResponse
    /\ replaced' = {}
    /\ UNCHANGED <<notifyVars, dbVars, providerVars, boards, bIdx, existing, tasks, lastUpsert>>

\* the board fetch also dropping the user's mappings of boards that the
\* provider no longer returns
SweepFetchOk_prune ==
    /\ phase = "startup" /\ pc = "user"
    /\ uIdx <= Len(users)
    /\ CurToken # ""
    /\ boards' = FetchBoards(CurToken)
    /\ board_user_map' = SelectSeq(board_user_map,
                              LAMBDA r : r.user_id # CurUser
                                         \/ r.board_id \in trelloBoards[CurToken])
    /\ bIdx' = 1
    /\ pc' = "board"
    /\ response' = NoResponse
    /\ replaced' = {}
    /\ UNCHANGED <<notifyVars, tokens, generated_docs, providerVars, phase, users, uIdx, existing,
                   tasks, lastUpsert, sweepStatus, curClean, sweptHooks>>

\* lines 132-142: the board fetch for the current user succeeds
SweepFetchOk ==
    /\ phase = "startup" /\ pc = "user"
    /\ uIdx <= Len(users)
    /\ CurToken # ""
    /\ boards' = FetchBoards(CurToken)
    /\ bIdx' = 1
    /\ pc' = "board"
    /\ response' = NoResponse
    /\ replaced' = {}
    /\ UNCHANGED <<notifyVars, dbVars, providerVars, phase, users, uIdx, existing, tasks,
                   lastUpsert, sweepStatus, curClean, sweptHooks>>

\* lines 132-133 and 143-145: the token is empty, or the fetch raises: the
\* loop continues with the next user
SweepFetchFail ==
    /\ phase = "startup" /\ pc = "user"
    /\ uIdx <= Len(users)
    /\ uIdx' = uIdx + 1
    /\ curClean' = (curClean /\ CurToken = "")
    /\ response' = NoResponse
    /\ replaced' = {}
    /\ UNCHANGED <<notifyVars, dbVars, providerVars, phase, pc, users, boards, bIdx, existing,
                   tasks, lastUpsert, sweepStatus, sweptHooks>>

\* line 147: the loop over the fetched boards is exhausted
SweepNextUser ==
    /\ phase = "startup" /\ pc = "board"
    /\ bIdx > Len(boards)
    /\ uIdx' = uIdx + 1
    /\ pc' = "user"
    /\ boards' = <<>>
    /\ bIdx' = 0
    /\ existing' = NoListing
    /\ response' = NoResponse
    /\ replaced' = {}
    /\ UNCHANGED <<notifyVars, dbVars, providerVars, phase, users, tasks,
                   lastUpsert, sweepStatus, curClean, sweptHooks>>

\* lines 153-158: map the board to the user
SweepUpsert ==
    /\ phase = "startup" /\ pc = "board"
    /\ bIdx <= Len(boards)
    /\ board_user_map' = map_board_startup(board_user_map, CurBoard, CurUser,
                                           BoardName(CurBoard))
    /\ pc' = "list"
    /\ lastUpsert' = [lastUpsert EXCEPT ![CurBoard] = CurUser]
    /\ replaced' = IF OwnerOf(board_user_map, CurBoard) \in Users \ {CurUser}
                   THEN {CurBoard} ELSE {}
    /\ existing' = NoListing
    /\ response' = NoResponse
    /\ UNCHANGED <<notifyVars, tokens, generated_docs, providerVars, phase, users, uIdx, boards,
                   bIdx, tasks, sweepStatus, curClean, sweptHooks>>

\* lines 154-158 raise (storage unavailable): nothing catches it, startup_all
\* fails and the process exits
SweepUpsertFail ==
    /\ phase = "startup" /\ pc = "board"
    /\ bIdx <= Len(boards)
    /\ phase' = "down"
    /\ pc' = "idle"
    /\ users' = <<>>
    /\ uIdx' = 0
    /\ boards' = <<>>
    /\ bIdx' = 0
    /\ sweepStatus' = "none"
    /\ sweptHooks' = NoHooks
    /\ curClean' = TRUE
    /\ existing' = NoListing
    /\ response' = NoResponse
    /\ replaced' = {}
    /\ UNCHANGED <<notifyVars, dbVars, providerVars, tasks, lastUpsert>>

\* lines 161-173: the registration listing succeeds; skip the board when a
\* registration with our callback and this board is listed
SweepListOk ==
    /\ phase = "startup" /\ pc = "list"
    /\ \E foreign \in SUBSET Boards :
        LET listing == ListWebhooks(CurToken, foreign) IN
        /\ existing' = [ok |-> TRUE, hooks |-> listing]
        /\ IF WebhookExists(listing, CurBoard)
           THEN /\ bIdx' = bIdx + 1
                /\ pc' = "board"
           ELSE /\ bIdx' = bIdx
                /\ pc' = "register"
    /\ response' = NoResponse
    /\ replaced' = {}
    /\ UNCHANGED <<notifyVars, dbVars, providerVars, phase, users, uIdx, boards, tasks,
                   lastUpsert, sweepStatus, curClean, sweptHooks>>

\* the listing raises and the board is skipped (fail closed)
SweepListFail_skip ==
    /\ phase = "startup" /\ pc = "list"
    /\ existing' = NoListing
    /\ pc' = "board"
    /\ bIdx' = bIdx + 1
    /\ curClean' = FALSE
    /\ response' = NoResponse
    /\ replaced' = {}
    /\ UNCHANGED <<notifyVars, dbVars, providerVars, phase, users, uIdx, boards, tasks,
                   lastUpsert, sweepStatus, sweptHooks>>

\* lines 174-175: the listing raises: logged, fall through to registration
SweepListFail ==
    /\ phase = "startup" /\ pc = "list"
    /\ existing' = NoListing
    /\ pc' = "register"
    /\ curClean' = FALSE
    /\ response' = NoResponse
    /\ replaced' = {}
    /\ UNCHANGED <<notifyVars, dbVars, providerVars, phase, users, uIdx, boards, bIdx, tasks,
                   lastUpsert, sweepStatus, sweptHooks>>

\* register_trello_webhook (app/services/trello_service.py, not in src/):
\* POST /1/webhooks for (callback_url, board_id) with the token; "ok" creates a
\* registration, "error_response" returns without creating one and without
\* raising, "raise" raises
RegisterOutcomes == {"ok", "error_response", "raise"}

register_trello_webhook(hooks, board_id, token, outcome) ==
    IF outcome = "ok"
    THEN [hooks EXCEPT ![<<token, board_id>>] = @ + 1]
    ELSE hooks

\* the registration call made again for the same board when it raised
SweepRegister_retry ==
    /\ phase = "startup" /\ pc = "register"
    /\ \E outcome \in RegisterOutcomes :
        /\ outcome = "ok" => trelloWebhooks[<<CurToken, CurBoard>>] < MaxRegs
        /\ trelloWebhooks' = register_trello_webhook(trelloWebhooks, CurBoard,
                                                     CurToken, outcome)
        /\ curClean' = (curClean /\ outcome = "ok")
        /\ IF outcome = "raise"
           THEN /\ pc' = "register"
                /\ bIdx' = bIdx
           ELSE /\ pc' = "sleep"
                /\ bIdx' = bIdx
    /\ existing' = NoListing
    /\ response' = NoResponse
    /\ replaced' = {}
    /\ UNCHANGED <<notifyVars, dbVars, trelloBoards, phase, users, uIdx, boards, tasks,
                   lastUpsert, sweepStatus, sweptHooks>>

\* lines 178-188: the registration call; the sleep follows unless it raised
SweepRegister ==
    /\ phase = "startup" /\ pc = "register"
    /\ \E outcome \in RegisterOutcomes :
        /\ outcome = "ok" => trelloWebhooks[<<CurToken, CurBoard>>] < MaxRegs
        /\ trelloWebhooks' = register_trello_webhook(trelloWebhooks, CurBoard,
                                                     CurToken, outcome)
        /\ curClean' = (curClean /\ outcome = "ok")
        /\ IF outcome = "raise"
           THEN /\ pc' = "board"
                /\ bIdx' = bIdx + 1
           ELSE /\ pc' = "sleep"
                /\ bIdx' = bIdx
    /\ existing' = NoListing
    /\ response' = NoResponse
    /\ replaced' = {}
    /\ UNCHANGED <<notifyVars, dbVars, trelloBoards, phase, users, uIdx, boards, tasks,
                   lastUpsert, sweepStatus, sweptHooks>>

\* line 186: await asyncio.sleep(0.5)
SweepSleep ==
    /\ phase = "startup" /\ pc = "sleep"
    /\ pc' = "board"
    /\ bIdx' = bIdx + 1
    /\ response' = NoResponse
    /\ replaced' = {}
    /\ UNCHANGED <<notifyVars, dbVars, providerVars, phase, users, uIdx, boards, existing, tasks,
                   lastUpsert, sweepStatus, curClean, sweptHooks>>

\* ------------------------------------------------------------------
\* POST /trello/webhook/register: register_webhook (routes/trello_webhook.py 13-42)
\* ------------------------------------------------------------------
\* os.getenv("TRELLO_TOKEN"): the one token the endpoint registers with
ENV_TRELLO_TOKEN == "t1"

\* get_user_generated_boards (app/services/trello_service.py, not in src/):
\* the boards mapped to the owner
get_user_generated_boards(coll, user_id) ==
    SelectSeq(coll, LAMBDA r : r.user_id = user_id)

RECURSIVE RegisterBoards(_, _, _)
\* lines 27-40: one registration call per board, in order, with no look at the
\* registrations that exist; a call that raises ends the handler.  outs gives
\* the outcome of the call for each board
RegisterBoards(hooks, rows, outs) ==
    IF rows = <<>> THEN [hooks |-> hooks, details |-> <<>>, raised |-> FALSE]
    ELSE LET b == Head(rows).board_id IN
         IF outs[b] = "raise"
         THEN [hooks |-> hooks, details |-> <<>>, raised |-> TRUE]
         ELSE LET rest == RegisterBoards(
                              register_trello_webhook(hooks, b, ENV_TRELLO_TOKEN, outs[b]),
                              Tail(rows), outs)
              IN [hooks |-> rest.hooks,
                  details |-> <<[board_id |-> b,
                                 status_code |-> IF outs[b] = "ok" THEN 200 ELSE 500]>>
                              \o rest.details,
                  raised |-> rest.raised]

\* the body returned by the registration endpoint
RegisterResp(user_id, code, message, details) ==
    [op |-> "register", code |-> code, status |-> "none", message |-> message,
     count |-> 0, doc |-> "", user_id |-> user_id, details |-> details]

register_webhook(user_id, outs) ==
    LET user_boards == get_user_generated_boards(board_user_map, user_id)
        r == RegisterBoards(trelloWebhooks, user_boards, outs)
    IN
    /\ phase = "serving"
    /\ IF user_boards = <<>>
       THEN /\ response' = RegisterResp(user_id, 404, "No boards registered for this user", <<>>)
            /\ UNCHANGED trelloWebhooks
       ELSE /\ trelloWebhooks' = r.hooks
            /\ response' = IF r.raised
                           THEN RegisterResp(user_id, 500, "Internal Server Error", <<>>)
                           ELSE RegisterResp(user_id, 200, "Webhooks registered", r.details)
    /\ replaced' = {}
    /\ sweepStatus' = "none"
    /\ sweptHooks' = NoHooks
    /\ UNCHANGED <<notifyVars, dbVars, trelloBoards, phase, sweepVars, tasks, lastUpsert, curClean>>

RegisterWebhook ==
    \E user_id \in Users, outs \in [Boards -> RegisterOutcomes] :
        /\ \A b \in Boards :
              IF OwnerOf(board_user_map, b) = user_id
              THEN outs[b] = "ok" => trelloWebhooks[<<ENV_TRELLO_TOKEN, b>>] < MaxRegs
              ELSE outs[b] = "ok"
        /\ register_webhook(user_id, outs)

\* ------------------------------------------------------------------
\* trello_save_token (app/main.py 210-270)
\* ------------------------------------------------------------------
RECURSIVE MapBoards(_, _, _, _)
\* lines 252-265: upsert every fetched board whose update does not raise
MapBoards(coll, bs, user_id, failing) ==
    IF bs = <<>> THEN coll
    ELSE LET b == Head(bs)
             next == IF b \in failing THEN coll
                     ELSE map_board_save_token(coll, b, user_id, BoardName(b), BoardDesc(b))
         IN MapBoards(next, Tail(bs), user_id, failing)

\* the boards of bs whose upsert went through
Mapped(bs, failing) == {bs[i] : i \in 1..Len(bs)} \ failing

\* the token registration endpoint undoing the token save when the board
\* fetch fails
trello_save_token_rollback(user_id, trello_token, saveOk, fetchOk, failing) ==
    /\ phase = "serving"
    /\ IF user_id = "" \/ trello_token = ""
       THEN /\ response' = Resp("save_token", 200, "error",
                                "user_id and trello_token are required", 0, "")
            /\ replaced' = {}
            /\ UNCHANGED <<dbVars, lastUpsert, sweepStatus, sweptHooks>>
       ELSE IF ~saveOk
       THEN /\ response' = Resp("save_token", 200, "error", "Failed to save token", 0, "")
            /\ replaced' = {}
            /\ UNCHANGED <<dbVars, lastUpsert, sweepStatus, sweptHooks>>
       ELSE IF ~fetchOk
       THEN /\ response' = Resp("save_token", 200, "error", "Failed to fetch boards", 0, "")
            /\ replaced' = {}
            /\ sweepStatus' = "none"
            /\ sweptHooks' = NoHooks
            /\ UNCHANGED <<dbVars, lastUpsert>>
       ELSE LET bs == FetchBoards(trello_token) IN
            /\ tokens' = save_user_token(tokens, user_id, trello_token)
            /\ board_user_map' = MapBoards(board_user_map, bs, user_id, failing)
            /\ response' = Resp("save_token", 200, "success", "boards mapped",
                                Cardinality(Mapped(bs, failing)), "")
            /\ lastUpsert' = [b \in Boards |->
                                IF b \in Mapped(bs, failing) THEN user_id
                                ELSE lastUpsert[b]]
            /\ replaced' = {b \in Mapped(bs, failing) :
                              OwnerOf(board_user_map, b) \in Users \ {user_id}}
            /\ sweepStatus' = "none"
            /\ sweptHooks' = NoHooks
            /\ UNCHANGED generated_docs
    /\ UNCHANGED <<notifyVars, providerVars, phase, sweepVars, tasks, curClean>>

trello_save_token(user_id, trello_token, saveOk, fetchOk, failing) ==
    /\ phase = "serving"
    /\ IF user_id = "" \/ trello_token = ""
       THEN /\ response' = Resp("save_token", 200, "error",
                                "user_id and trello_token are required", 0, "")
            /\ replaced' = {}
            /\ UNCHANGED <<dbVars, lastUpsert, sweepStatus, sweptHooks>>
       ELSE IF ~saveOk
       THEN /\ response' = Resp("save_token", 200, "error", "Failed to save token", 0, "")
            /\ replaced' = {}
            /\ UNCHANGED <<dbVars, lastUpsert, sweepStatus, sweptHooks>>
       ELSE IF ~fetchOk
       THEN /\ tokens' = save_user_token(tokens, user_id, trello_token)
            /\ response' = Resp("save_token", 200, "error", "Failed to fetch boards", 0, "")
            /\ replaced' = {}
            /\ sweepStatus' = "none"
            /\ sweptHooks' = NoHooks
            /\ UNCHANGED <<board_user_map, generated_docs, lastUpsert>>
       ELSE LET bs == FetchBoards(trello_token) IN
            /\ tokens' = save_user_token(tokens, user_id, trello_token)
            /\ board_user_map' = MapBoards(board_user_map, bs, user_id, failing)
            /\ response' = Resp("save_token", 200, "success", "boards mapped",
                                Cardinality(Mapped(bs, failing)), "")
            /\ lastUpsert' = [b \in Boards |->
                                IF b \in Mapped(bs, failing) THEN user_id
                                ELSE lastUpsert[b]]
            /\ replaced' = {b \in Mapped(bs, failing) :
                              OwnerOf(board_user_map, b) \in Users \ {user_id}}
            /\ sweepStatus' = "none"
            /\ sweptHooks' = NoHooks
            /\ UNCHANGED generated_docs
    /\ UNCHANGED <<notifyVars, providerVars, phase, sweepVars, tasks, curClean>>

\* one request to POST /trello/save_token; outcomes that cannot matter for the
\* path taken are fixed
SaveToken ==
    \E user_id \in Users \cup {""}, trello_token \in Tokens \cup {""},
       saveOk \in BOOLEAN, fetchOk \in BOOLEAN, failing \in SUBSET Boards :
        /\ (user_id = "" \/ trello_token = "") => saveOk
        /\ ~saveOk => fetchOk
        /\ (user_id = "" \/ trello_token = "" \/ ~saveOk \/ ~fetchOk) => failing = {}
        /\ trello_token \in Tokens => failing \subseteq trelloBoards[trello_token]
        /\ trello_save_token(user_id, trello_token, saveOk, fetchOk, failing)

\* ------------------------------------------------------------------
\* Provider-side changes made outside this program
\* ------------------------------------------------------------------
\* a board becomes visible to a token, or stops being visible (closed, left)
TrelloBoardsChange ==
    \E t \in VolatileTokens, b \in VolatileBoards :
        /\ phase # "startup"
        /\ trelloBoards' = [trelloBoards EXCEPT ![t] =
                              IF b \in @ THEN @ \ {b} ELSE @ \cup {b}]
        /\ sweepStatus' = "none"
        /\ sweptHooks' = NoHooks
        /\ response' = NoResponse
        /\ replaced' = {}
        /\ UNCHANGED <<notifyVars, dbVars, trelloWebhooks, phase, sweepVars, tasks, lastUpsert, curClean>>

\* ------------------------------------------------------------------
\* execute_workflow (app/services/workflow_service.py, not in src/)
\* ------------------------------------------------------------------
\* one call of execute_workflow(user_id, project_id, data, db); awaited tells
\* whether a request handler is waiting for its result
Task(user_id, project_id, template_name, origin, awaited) ==
    [user_id |-> user_id, project_id |-> project_id,
     template_name |-> template_name, origin |-> origin, awaited |-> awaited]

\* the call starts: the Generation Collaborator is invoked for the key
start_workflow(ts, task) == ts (+) SetToBag({task})

\* the row execute_workflow stores for a generated artifact
DocRow(task, art) ==
    [user_id |-> task.user_id, project_id |-> task.project_id,
     template_name |-> task.template_name, generated_docs |-> art,
     generated_diagrams |-> ArtifactDiagrams(art),
     board_name |-> BoardName(task.project_id)]

\* the artifact a generation that succeeds now produces
NewArtifact(coll) == ArtifactNames[Len(coll) + 1]

\* the result is stored: an insert, no uniqueness constraint on the key
store_generated(coll, task, art) == Append(coll, DocRow(task, art))

\* the call ends: on success the artifact is stored under the key and
\* returned, on failure a structured error is returned and nothing is stored
ExecuteWorkflowDone ==
    \E task \in BagToSet(tasks),
       outcome \in {NewArtifact(generated_docs), "failure"} :
        /\ phase = "serving"
        /\ tasks' = tasks (-) SetToBag({task})
        /\ IF outcome = "failure"
           THEN /\ UNCHANGED generated_docs
                /\ response' = IF task.awaited
                               THEN Resp(task.origin, 200, "error", "generation failed", 0, "")
                               ELSE NoResponse
           ELSE /\ Len(generated_docs) < MaxDocs
                /\ generated_docs' = store_generated(generated_docs, task, outcome)
                /\ response' = IF task.awaited
                               THEN Resp(task.origin, 200, "success", "", 0, outcome)
                               ELSE NoResponse
        /\ replaced' = {}
        /\ UNCHANGED <<notifyVars, tokens, board_user_map, providerVars, phase, sweepVars,
                       lastUpsert, sweepStatus, curClean, sweptHooks>>

\* ------------------------------------------------------------------
\* POST /pm: trello_webhook_event (app/main.py 85-111)
\* ------------------------------------------------------------------
\* a request body: top is "invalid" (not JSON), "array" (JSON, not an object)
\* or "object"; action, data and board are "missing", "null" or "object";
\* id is "missing", "null" or a board id
Payload(top, action, data, board, id) ==
    [top |-> top, action |-> action, data |-> data, board |-> board, id |-> id]

Payloads ==
    {Payload("invalid", "missing", "missing", "missing", "missing"),
     Payload("array", "missing", "missing", "missing", "missing"),
     Payload("object", "missing", "missing", "missing", "missing"),
     Payload("object", "null", "missing", "missing", "missing"),
     Payload("object", "object", "missing", "missing", "missing"),
     Payload("object", "object", "null", "missing", "missing"),
     Payload("object", "object", "object", "missing", "missing"),
     Payload("object", "object", "object", "null", "missing")}
    \cup {Payload("object", "object", "object", "object", id) :
            id \in {"missing", "null"} \cup Boards}

\* line 93: payload.get("action", {}).get("data", {}).get("board", {}).get("id")
\* .get raises on a value that is not an object; a missing key yields {}
BoardIdOf(p) ==
    IF p.top # "object" THEN "raise"
    ELSE IF p.action = "null" THEN "raise"
    ELSE IF p.action = "missing" THEN ""
    ELSE IF p.data = "null" THEN "raise"
    ELSE IF p.data = "missing" THEN ""
    ELSE IF p.board = "null" THEN "raise"
    ELSE IF p.board = "missing" THEN ""
    ELSE IF p.id \in {"missing", "null"} THEN ""
    ELSE p.id

\* the handler awaiting execute_workflow instead of scheduling it: the
\* response is the result of the call
create_task_awaited(ts, user_id, board_id) ==
    [tasks |-> start_workflow(ts, Task(user_id, board_id, "default", "webhook", TRUE)),
     response |-> NoResponse]

\* the handler asking for the "custom" template
create_task_custom(ts, user_id, board_id) ==
    [tasks |-> start_workflow(ts, Task(user_id, board_id, "custom", "webhook", FALSE)),
     response |-> Resp("webhook", 200, "success", "Workflow triggered", 0, "")]

\* line 108: asyncio.create_task(execute_workflow(...)): the call runs in the
\* background, the handler goes on to its return
create_task(ts, user_id, board_id) ==
    [tasks |-> start_workflow(ts, Task(user_id, board_id, "default", "webhook", FALSE)),
     response |-> Resp("webhook", 200, "success", "Workflow triggered", 0, "")]

trello_webhook_event(p) ==
    /\ phase = "serving"
    /\ IF p.top = "invalid" \/ BoardIdOf(p) = "raise"
       THEN \* request.json() or .get raises: the framework answers 500
            /\ response' = Resp("webhook", 500, "exception", "Internal Server Error", 0, "")
            /\ UNCHANGED tasks
       ELSE IF BoardIdOf(p) = ""
       THEN /\ response' = Resp("webhook", 200, "ignored", "No board ID in webhook", 0, "")
            /\ UNCHANGED tasks
       ELSE IF OwnerOf(board_user_map, BoardIdOf(p)) = ""
       THEN /\ response' = Resp("webhook", 200, "error", "User not found for this board", 0, "")
            /\ UNCHANGED tasks
       ELSE LET r == create_task(tasks, OwnerOf(board_user_map, BoardIdOf(p)), BoardIdOf(p)) IN
            /\ BagCardinality(tasks) < MaxTasks
            /\ tasks' = r.tasks
            /\ response' = r.response
    /\ replaced' = {}
    /\ UNCHANGED <<notifyVars, dbVars, providerVars, phase, sweepVars,
                   lastUpsert, sweepStatus, curClean, sweptHooks>>

WebhookEvent == \E p \in Payloads : trello_webhook_event(p)

\* ------------------------------------------------------------------
\* The notification handlers: POST /trello/pm (routes/trello_webhook.py) and
\* POST /pm of routes/fake_webhook.py
\* ------------------------------------------------------------------
\* a background task: which router added it, and the payload of the event
Background(router, p) == [router |-> router, payload |-> p]

\* the acknowledgment of the notification handlers: Response(status_code=200)
AckResp(router) ==
    [op |-> "notify", code |-> 200, status |-> "none", message |-> "",
     count |-> 0, doc |-> "", router |-> router]

\* trello_webhook of either router (trello_webhook.py 101-109, fake_webhook.py
\* 60-76): a body that is not JSON is acknowledged and dropped, any other is
\* handed to process_trello_action as a background task and acknowledged
trello_webhook(router, p) ==
    /\ phase = "serving"
    /\ IF p.top = "invalid"
       THEN UNCHANGED background
       ELSE /\ BagCardinality(background) < MaxBackground
            /\ background' = background (+) SetToBag({Background(router, p)})
    /\ response' = AckResp(router)
    /\ replaced' = {}
    /\ UNCHANGED <<notifications, dbVars, providerVars, phase, sweepVars, tasks,
                   lastUpsert, sweepStatus, curClean, sweptHooks>>

TrelloWebhookRoute == \E p \in Payloads : trello_webhook("trello", p)

FakeWebhookRoute == \E p \in Payloads : trello_webhook("fake", p)

\* get_user_boards_for_board (trello_webhook.py 125-128): every row of the board
get_user_boards_for_board(coll, board_id) ==
    SelectSeq(coll, LAMBDA r : r.board_id = board_id)

\* the notification written for one mapping row
NotificationDoc(user_board) ==
    [user_id |-> user_board.user_id, board_id |-> user_board.board_id]

\* trello_webhook.py 85-95: one insert per row, in order; the insert numbered
\* failAt raises and ends the task (failAt = 0: none fails)
InsertNotifications(coll, user_boards, failAt) ==
    LET n == IF failAt = 0 THEN Len(user_boards) ELSE failAt - 1 IN
    coll \o [i \in 1..n |-> NotificationDoc(user_boards[i])]

\* process_trello_action of routes/trello_webhook.py (57-95), run after the
\* response was sent
process_trello_action(task, failAt) ==
    LET p == task.payload
        user_boards == IF BoardIdOf(p) \in Boards
                       THEN get_user_boards_for_board(board_user_map, BoardIdOf(p))
                       ELSE <<>>
    IN
    /\ phase = "serving"
    /\ task.router = "trello"
    /\ background' = background (-) SetToBag({task})
    /\ failAt <= Len(user_boards)
    /\ IF p.top # "object" \/ p.action # "object" \/ BoardIdOf(p) = "raise"
       THEN \* no action: return at line 64; .get on a value that is not an
            \* object raises before any write
            UNCHANGED notifications
       ELSE /\ Len(InsertNotifications(notifications, user_boards, failAt)) <= MaxNotifs
            /\ notifications' = InsertNotifications(notifications, user_boards, failAt)
    /\ response' = NoResponse
    /\ replaced' = {}
    /\ UNCHANGED <<dbVars, providerVars, phase, sweepVars, tasks,
                   lastUpsert, sweepStatus, curClean, sweptHooks>>

ProcessTrelloAction ==
    \E task \in BagToSet(background), failAt \in 0..2 :
        process_trello_action(task, failAt)

\* process_trello_action of routes/fake_webhook.py (10-47), run after the
\* response was sent: it is declared with one parameter and added with two
\* arguments (lines 70-74), so the call raises TypeError before its first line
process_fake_action(task) ==
    /\ phase = "serving"
    /\ task.router = "fake"
    /\ background' = background (-) SetToBag({task})
    /\ response' = NoResponse
    /\ replaced' = {}
    /\ UNCHANGED <<notifications, dbVars, providerVars, phase, sweepVars, tasks,
                   lastUpsert, sweepStatus, curClean, sweptHooks>>

ProcessFakeAction ==
    \E task \in BagToSet(background) : process_fake_action(task)

NextNotify ==
    \/ TrelloWebhookRoute
    \/ FakeWebhookRoute
    \/ ProcessTrelloAction
    \/ ProcessFakeAction

\* ------------------------------------------------------------------
\* GET /trello/boards_with_headings (app/main.py 273-316)
\* ------------------------------------------------------------------
RECURSIVE Headings(_)
\* re.findall(r'##\s*(.+)', raw_doc): one capture per line holding "##", the
\* rest of the line after "##" and blanks; when nothing follows on that line,
\* \s* runs over the line break and the next line is captured whole
Headings(lines) ==
    IF lines = <<>> THEN <<>>
    ELSE LET l == Head(lines) IN
         IF l.hashes < 2 THEN Headings(Tail(lines))
         ELSE IF l.hashes > 2 \/ l.text # ""
         THEN <<Line(l.hashes - 2, l.text)>> \o Headings(Tail(lines))
         ELSE IF Tail(lines) = <<>> THEN <<>>
         ELSE <<Head(Tail(lines))>> \o Headings(Tail(Tail(lines)))

\* lines 297-299: doc_map = {doc["project_id"]: doc for doc in docs_list}: the
\* index of the last row of the user for the project, 0 when none
DocMap(coll, user_id, project_id) ==
    LET hits == {i \in 1..Len(coll) :
                    coll[i].user_id = user_id /\ coll[i].project_id = project_id}
    IN IF hits = {} THEN 0 ELSE CHOOSE i \in hits : \A j \in hits : j <= i

\* lines 302-314: one entry of boards_with_status
BoardStatus(coll, user_id, board_id) ==
    LET i == DocMap(coll, user_id, board_id) IN
    [id |-> board_id, name |-> BoardName(board_id), desc |-> BoardDesc(board_id),
     has_generated_doc |-> (i # 0),
     previous_headings |-> IF i # 0
                           THEN Headings(ArtifactText(coll[i].generated_docs))
                           ELSE <<>>]

\* the body returned by the board listing endpoint
BoardsResp(user_id, status, message, bs) ==
    [op |-> "boards", code |-> 200, status |-> status, message |-> message,
     count |-> 0, doc |-> "", user_id |-> user_id, boards |-> bs]

\* the listing endpoint starting a generation for every listed board that has
\* no document yet
trello_boards_with_headings_generating(user_id, fetchOk) ==
    LET token == get_user_token(tokens, user_id)
        bs == FetchBoards(token)
        missing == {b \in {bs[i] : i \in 1..Len(bs)} :
                       DocMap(generated_docs, user_id, b) = 0}
    IN
    /\ phase = "serving"
    /\ IF token = ""
       THEN /\ response' = BoardsResp(user_id, "error", "User not connected to Trello", <<>>)
            /\ UNCHANGED tasks
       ELSE IF ~fetchOk
       THEN /\ response' = BoardsResp(user_id, "error", "Failed to fetch boards", <<>>)
            /\ UNCHANGED tasks
       ELSE /\ response' = BoardsResp(user_id, "success", "",
                           [i \in 1..Len(bs) |-> BoardStatus(generated_docs, user_id, bs[i])])
            /\ tasks' = tasks (+) SetToBag({Task(user_id, b, "default", "boards", FALSE) :
                                              b \in missing})
    /\ replaced' = {}
    /\ UNCHANGED <<notifyVars, dbVars, providerVars, phase, sweepVars,
                   lastUpsert, sweepStatus, curClean, sweptHooks>>

trello_boards_with_headings(user_id, fetchOk) ==
    LET token == get_user_token(tokens, user_id)
        bs == FetchBoards(token)
    IN
    /\ phase = "serving"
    /\ IF token = ""
       THEN response' = BoardsResp(user_id, "error", "User not connected to Trello", <<>>)
       ELSE IF ~fetchOk
       THEN response' = BoardsResp(user_id, "error", "Failed to fetch boards", <<>>)
       ELSE response' = BoardsResp(user_id, "success", "",
                           [i \in 1..Len(bs) |-> BoardStatus(generated_docs, user_id, bs[i])])
    /\ replaced' = {}
    /\ UNCHANGED <<notifyVars, dbVars, providerVars, phase, sweepVars, tasks,
                   lastUpsert, sweepStatus, curClean, sweptHooks>>

BoardsWithHeadings ==
    \E user_id \in Users, fetchOk \in BOOLEAN :
        /\ get_user_token(tokens, user_id) = "" => fetchOk
        /\ trello_boards_with_headings(user_id, fetchOk)

\* ------------------------------------------------------------------
\* Workflow endpoints (app/main.py 322-356)
\* ------------------------------------------------------------------
\* collection.find_one({"user_id", "project_id", "template_name"}): index of
\* the first row with the key, 0 when none
FindDoc(coll, user_id, project_id, template_name) ==
    LET hits == {i \in 1..Len(coll) :
                    /\ coll[i].user_id = user_id
                    /\ coll[i].project_id = project_id
                    /\ coll[i].template_name = template_name}
    IN IF hits = {} THEN 0 ELSE CHOOSE i \in hits : \A j \in hits : i <= j

\* rows of coll without those stored under a key
WithoutKey(coll, user_id, project_id, template_name) ==
    SelectSeq(coll, LAMBDA r : ~(/\ r.user_id = user_id
                                 /\ r.project_id = project_id
                                 /\ r.template_name = template_name))

\* the workflow-run endpoint dropping the stored artifact of the key before
\* it generates again
run_workflow_refresh(user_id, project_id, template_name) ==
    /\ phase = "serving"
    /\ IF user_id = "" \/ project_id = ""
       THEN /\ response' = Resp("run", 200, "error",
                                "user_id and project_id are required", 0, "")
            /\ UNCHANGED <<tasks, generated_docs>>
       ELSE /\ BagCardinality(tasks) < MaxTasks
            /\ tasks' = start_workflow(tasks, Task(user_id, project_id, template_name,
                                                   "run", TRUE))
            /\ generated_docs' = WithoutKey(generated_docs, user_id, project_id,
                                            template_name)
            /\ response' = NoResponse
    /\ replaced' = {}
    /\ UNCHANGED <<notifyVars, tokens, board_user_map, providerVars, phase, sweepVars,
                   lastUpsert, sweepStatus, curClean, sweptHooks>>

\* POST /workflow/run, lines 322-329
run_workflow(user_id, project_id, template_name) ==
    /\ phase = "serving"
    /\ IF user_id = "" \/ project_id = ""
       THEN /\ response' = Resp("run", 200, "error",
                                "user_id and project_id are required", 0, "")
            /\ UNCHANGED tasks
       ELSE /\ BagCardinality(tasks) < MaxTasks
            /\ tasks' = start_workflow(tasks, Task(user_id, project_id, template_name,
                                                   "run", TRUE))
            /\ response' = NoResponse
    /\ replaced' = {}
    /\ UNCHANGED <<notifyVars, dbVars, providerVars, phase, sweepVars,
                   lastUpsert, sweepStatus, curClean, sweptHooks>>

RunWorkflow ==
    \E user_id \in Users \cup {""}, project_id \in RequestProjects \cup {""},
       template_name \in Templates :
        run_workflow(user_id, project_id, template_name)

\* lines 345-348: every diagram that has an image gets it prefixed
EncodeDiagrams(diagrams) ==
    [h \in DOMAIN diagrams |->
        IF "image" \in DOMAIN diagrams[h]
        THEN [diagrams[h] EXCEPT !.image = <<"data:image/png;base64,">> \o @]
        ELSE diagrams[h]]

\* lines 350-356: the body returned on a hit
ReadResp(template_name, doc) ==
    [op |-> "read", code |-> 200, status |-> "success", message |-> "",
     count |-> 0, doc |-> doc.generated_docs, template_name |-> template_name,
     generated_diagrams |-> EncodeDiagrams(doc.generated_diagrams),
     board_name |-> doc.board_name]

\* the read endpoint answering a miss with an error instead of generating
get_generated_doc_no_generation(user_id, project_id, template_name) ==
    LET i == FindDoc(generated_docs, user_id, project_id, template_name) IN
    /\ phase = "serving"
    /\ IF i = 0
       THEN /\ response' = Resp("read", 200, "error", "not generated", 0, "")
            /\ UNCHANGED tasks
       ELSE /\ response' = ReadResp(template_name, generated_docs[i])
            /\ UNCHANGED tasks
    /\ replaced' = {}
    /\ UNCHANGED <<notifyVars, dbVars, providerVars, phase, sweepVars,
                   lastUpsert, sweepStatus, curClean, sweptHooks>>

\* the read endpoint saving the document it has re-encoded back to the cache
get_generated_doc_persist_encoded(user_id, project_id, template_name) ==
    LET i == FindDoc(generated_docs, user_id, project_id, template_name) IN
    /\ phase = "serving"
    /\ IF i = 0
       THEN /\ BagCardinality(tasks) < MaxTasks
            /\ tasks' = start_workflow(tasks, Task(user_id, project_id, template_name,
                                                   "read", TRUE))
            /\ response' = NoResponse
            /\ UNCHANGED generated_docs
       ELSE /\ response' = ReadResp(template_name, generated_docs[i])
            /\ generated_docs' = [generated_docs EXCEPT ![i].generated_diagrams =
                                      EncodeDiagrams(@)]
            /\ UNCHANGED tasks
    /\ replaced' = {}
    /\ UNCHANGED <<notifyVars, tokens, board_user_map, providerVars, phase, sweepVars,
                   lastUpsert, sweepStatus, curClean, sweptHooks>>

\* GET /workflow/generated, lines 332-356
get_generated_doc(user_id, project_id, template_name) ==
    LET i == FindDoc(generated_docs, user_id, project_id, template_name) IN
    /\ phase = "serving"
    /\ IF i = 0
       THEN /\ BagCardinality(tasks) < MaxTasks
            /\ tasks' = start_workflow(tasks, Task(user_id, project_id, template_name,
                                                   "read", TRUE))
            /\ response' = NoResponse
       ELSE /\ response' = ReadResp(template_name, generated_docs[i])
            /\ UNCHANGED tasks
    /\ replaced' = {}
    /\ UNCHANGED <<notifyVars, dbVars, providerVars, phase, sweepVars,
                   lastUpsert, sweepStatus, curClean, sweptHooks>>

GetGeneratedDoc ==
    \E user_id \in Users, project_id \in RequestProjects, template_name \in Templates :
        get_generated_doc(user_id, project_id, template_name)

NextCache ==
    \/ WebhookEvent
    \/ RunWorkflow
    \/ GetGeneratedDoc
    \/ ExecuteWorkflowDone

\* The dispatcher and the document cache are explored from two states of the
\* durable stores that SpecReconciler reaches: u1 has saved a token and owns
\* b1 while b2 is unmapped (OneAccount), or u1 owns b2 and u2, who saved a
\* token later, owns b1 (TwoAccounts).
OneAccount ==
    /\ tokens = save_user_token(<<>>, "u1", "t1")
    /\ board_user_map = MapBoards(<<>>, <<"b1">>, "u1", {})
    /\ trelloBoards = [t \in Tokens |-> InitialBoards]
    /\ lastUpsert = [b \in Boards |-> IF b = "b1" THEN "u1" ELSE ""]

TwoAccounts ==
    /\ tokens = save_user_token(save_user_token(<<>>, "u1", "t1"), "u2", "t2")
    /\ board_user_map = MapBoards(MapBoards(<<>>, <<"b1", "b2">>, "u1", {}),
                                  <<"b1">>, "u2", {})
    /\ trelloBoards = [t \in Tokens |-> IF t = "t1" THEN {"b1", "b2"} ELSE {"b1"}]
    /\ lastUpsert = [b \in Boards |-> IF b = "b1" THEN "u2" ELSE "u1"]

InitCache ==
    /\ OneAccount \/ TwoAccounts
    /\ generated_docs = <<>>
    /\ trelloWebhooks = NoHooks
    /\ phase = "serving"
    /\ pc = "idle"
    /\ users = <<>>
    /\ uIdx = 0
    /\ boards = <<>>
    /\ bIdx = 0
    /\ existing = NoListing
    /\ tasks = EmptyBag
    /\ response = NoResponse
    /\ replaced = {}
    /\ sweepStatus = "none"
    /\ curClean = TRUE
    /\ sweptHooks = NoHooks
    /\ notifications = <<>>
    /\ background = EmptyBag

SpecCache == InitCache /\ [][NextCache]_vars

\* The read side alone: the board listing and the generated-document read,
\* with the generations the reads start and the provider's boards changing
NextProjection ==
    \/ BoardsWithHeadings
    \/ GetGeneratedDoc
    \/ ExecuteWorkflowDone
    \/ TrelloBoardsChange

SpecProjection == InitCache /\ [][NextProjection]_vars

\* The dispatcher over every content of db["board_user_map"] of up to two
\* rows: the collection has no unique index on board_id (app/db.py creates
\* none), so the database the process connects to may hold several rows for
\* one board
MappingRows ==
    {[board_id |-> b, user_id |-> u, board_name |-> BoardName(b),
      board_desc |-> BoardDesc(b)] : b \in Boards, u \in Users}

MappingStores ==
    {<<>>} \cup {<<r>> : r \in MappingRows}
           \cup {<<r1, r2>> : r1 \in MappingRows, r2 \in MappingRows}

InitDispatch ==
    /\ board_user_map \in MappingStores
    /\ tokens = save_user_token(save_user_token(<<>>, "u1", "t1"), "u2", "t2")
    /\ trelloBoards = [t \in Tokens |-> Boards]
    /\ lastUpsert = [b \in Boards |-> ""]
    /\ generated_docs = <<>>
    /\ trelloWebhooks = NoHooks
    /\ phase = "serving"
    /\ pc = "idle"
    /\ users = <<>>
    /\ uIdx = 0
    /\ boards = <<>>
    /\ bIdx = 0
    /\ existing = NoListing
    /\ tasks = EmptyBag
    /\ response = NoResponse
    /\ replaced = {}
    /\ sweepStatus = "none"
    /\ curClean = TRUE
    /\ sweptHooks = NoHooks
    /\ notifications = <<>>
    /\ background = EmptyBag

NextDispatch ==
    \/ WebhookEvent
    \/ ExecuteWorkflowDone

SpecDispatch == InitDispatch /\ [][NextDispatch]_vars

\* The notification handlers over the same contents of the Mapping Store
SpecNotify == InitDispatch /\ [][NextNotify]_vars

\* The registration endpoint, with the token registration endpoint that maps
\* boards to owners and the provider's boards changing
NextRegister ==
    \/ RegisterWebhook
    \/ SaveToken
    \/ TrelloBoardsChange

SpecRegister == Init /\ [][NextRegister]_vars

\* the two starting states of SpecCache, as SpecReconciler reaches them
ReachedOneAccount == InitCache /\ OneAccount
ReachedTwoAccounts == InitCache /\ TwoAccounts

NextReconciler ==
    \/ Startup
    \/ SweepDone
    \/ SweepFetchOk
    \/ SweepFetchFail
    \/ SweepNextUser
    \/ SweepUpsert
    \/ SweepUpsertFail
    \/ SweepListOk
    \/ SweepListFail
    \/ SweepRegister
    \/ SweepSleep
    \/ SaveToken
    \/ TrelloBoardsChange

SpecReconciler == Init /\ [][NextReconciler]_vars

\* startup_all is one coroutine: each of its awaits returns or raises (the
\* provider client is built with timeout=20, main.py 128; the storage driver
\* raises when no server is selected), so a sweep in progress keeps stepping
SweepStep ==
    \/ SweepDone
    \/ SweepFetchOk
    \/ SweepFetchFail
    \/ SweepNextUser
    \/ SweepUpsert
    \/ SweepUpsertFail
    \/ SweepListOk
    \/ SweepListFail
    \/ SweepRegister
    \/ SweepSleep

\* the credentials a sweep can find stored: none, one account, two accounts
CredentialStores ==
    {<<>>,
     save_user_token(<<>>, "u1", "t1"),
     save_user_token(save_user_token(<<>>, "u1", "t1"), "u2", "t2"),
     save_user_token(save_user_token(<<>>, "u2", "t1"), "u1", "t1")}

\* the process is about to start over stored credentials and board lists
InitSweep ==
    /\ tokens \in CredentialStores
    /\ trelloBoards \in [Tokens -> SUBSET Boards]
    /\ board_user_map = <<>>
    /\ generated_docs = <<>>
    /\ trelloWebhooks = NoHooks
    /\ phase = "serving"
    /\ pc = "idle"
    /\ users = <<>>
    /\ uIdx = 0
    /\ boards = <<>>
    /\ bIdx = 0
    /\ existing = NoListing
    /\ tasks = EmptyBag
    /\ response = NoResponse
    /\ lastUpsert = [b \in Boards |-> ""]
    /\ replaced = {}
    /\ sweepStatus = "none"
    /\ curClean = TRUE
    /\ sweptHooks = NoHooks
    /\ notifications = <<>>
    /\ background = EmptyBag

NextSweep == Startup \/ SweepStep

SpecSweep == InitSweep /\ [][NextSweep]_vars /\ WF_vars(SweepStep)

Next == NextReconciler \/ NextCache \/ NextProjection \/ NextRegister \/ NextNotify

Spec == Init /\ [][Next]_vars

TypeOK ==
    /\ phase \in {"down", "startup", "serving"}
    /\ pc \in {"idle", "user", "board", "list", "register", "sleep"}
    /\ \A k \in Tokens \X Boards : trelloWebhooks[k] \in 0..MaxRegs

\* ------------------------------------------------------------------
\* Properties
\* ------------------------------------------------------------------
Keys == Users \X Boards \X Templates

\* execute_workflow calls in flight for a key that a given endpoint started
InFlightFrom(k, origin) ==
    CopiesIn(Task(k[1], k[2], k[3], origin, TRUE), tasks)
    + CopiesIn(Task(k[1], k[2], k[3], origin, FALSE), tasks)

\* execute_workflow calls in flight for a key, whatever started them
InFlight(k) ==
    InFlightFrom(k, "read") + InFlightFrom(k, "run") + InFlightFrom(k, "webhook")

\* rows of db["generated_docs"] stored under a key
RowsOf(k) ==
    {i \in 1..Len(generated_docs) :
        /\ generated_docs[i].user_id = k[1]
        /\ generated_docs[i].project_id = k[2]
        /\ generated_docs[i].template_name = k[3]}

\* C1: concurrent reads of one key that has no artifact yet share a single
\* invocation of the Generation Collaborator: the read endpoint never has two
\* generations in flight for the same key.
C1_ReadsCoalesce ==
    \A k \in Keys : InFlightFrom(k, "read") <= 1

\* C2: at most one generation is in flight per compound key, whether a read
\* miss, a webhook event or the workflow-run endpoint started it.
C2_SingleFlightPerKey ==
    \A k \in Keys : InFlight(k) <= 1

RECURSIVE SumOver(_, _)
SumOver(S, f) ==
    IF S = {} THEN 0
    ELSE LET x == CHOOSE y \in S : TRUE IN f[x] + SumOver(S \ {x}, f)

\* registrations with (TRELLO_CALLBACK_URL, b) at the provider, over all tokens
RegistrationsFor(b) ==
    SumOver(Tokens, [t \in Tokens |-> trelloWebhooks[<<t, b>>]])

\* C3: whatever sweeps have run, the provider holds at most one registration
\* for each (callback_url, board_id) pair.
C3_OneRegistrationPerBoard ==
    \A b \in Boards : RegistrationsFor(b) <= 1

\* the sweep is issuing, or has just issued, a registration call
RegistrationCall == pc \in {"register", "sleep"}

Listed(board_id) ==
    /\ existing.ok
    /\ \E w \in existing.hooks :
        w.callbackURL = TRELLO_CALLBACK_URL /\ w.idModel = board_id

\* C5: a board whose registration listing contains an entry with our callback
\* URL and the board's id gets no registration call.
C5_NoCallWhenListed ==
    (phase = "startup" /\ RegistrationCall) => ~Listed(CurBoard)

\* the sweep has moved past a board whose listing contained the registration
C5_Witness ==
    /\ phase = "startup" /\ pc = "board" /\ bIdx > 1
    /\ Listed(boards[bIdx - 1])

\* rows of db["board_user_map"] for a board
MapRows(b) == {i \in 1..Len(board_user_map) : board_user_map[i].board_id = b}

\* C10: the Mapping Store holds at most one row per board, owned by the owner
\* of the latest upsert for that board (none before the first upsert).
C10_UpsertLastWriterWins ==
    \A b \in Boards :
        /\ Cardinality(MapRows(b)) <= 1
        /\ lastUpsert[b] = "" => MapRows(b) = {}
        /\ lastUpsert[b] # "" =>
             /\ Cardinality(MapRows(b)) = 1
             /\ \A i \in MapRows(b) : board_user_map[i].user_id = lastUpsert[b]

\* an upsert has just replaced the owner of a mapped board: upsert(B, U1)
\* then upsert(B, U2) leaves one row, owned by U2
C10_Witness ==
    \E b \in replaced :
        /\ Cardinality(MapRows(b)) = 1
        /\ OwnerOf(board_user_map, b) = lastUpsert[b]

\* the payload is structured data without a board identifier
NoBoardId(p) ==
    /\ p.top = "object"
    /\ ~(p.action = "object" /\ p.data = "object" /\ p.board = "object"
         /\ p.id \in Boards)

\* the payload names a board that has no row in the Mapping Store
UnmappedBoard(p) ==
    /\ p.top = "object" /\ p.action = "object" /\ p.data = "object"
    /\ p.board = "object" /\ p.id \in Boards
    /\ MapRows(p.id) = {}

\* C7: an event without a board identifier, or for an unmapped board, is
\* acknowledged with 200 and schedules no generation task.
C7_DropSafety ==
    [][\A p \in Payloads :
          ((NoBoardId(p) \/ UnmappedBoard(p)) /\ trello_webhook_event(p))
              => (response'.code = 200 /\ tasks' = tasks)]_vars

\* C8: POST /pm always answers 200, whatever the body.
C8_AlwaysAcknowledged ==
    response.op = "webhook" => response.code = 200

\* C9: the step in which the dispatcher acknowledges an event for a mapped
\* board leaves the generation it scheduled in flight: the acknowledgment
\* never comes with, or after, the end of that generation.
C9_AckWhileGenerationPending ==
    [][(response'.op = "webhook" /\ response'.status = "success") =>
          /\ \E k \in Keys :
                InFlightFrom(k, "webhook")' = InFlightFrom(k, "webhook") + 1
          /\ generated_docs' = generated_docs]_vars

\* an event has just been acknowledged and its generation is still running
C9_Witness ==
    /\ response.op = "webhook" /\ response.status = "success"
    /\ \E k \in Keys : InFlightFrom(k, "webhook") >= 1
    /\ generated_docs = <<>>

\* C6: the Document Cache holds at most one artifact row per compound key.
C6_OneArtifactPerKey ==
    \A k \in Keys : Cardinality(RowsOf(k)) <= 1

\* C11: no failure of a step made for one account or one board ends the sweep:
\* the sweep stops only when the loop over the stored credentials is exhausted,
\* every account having been visited.
C11_FailureIsolation ==
    [][(phase = "startup" /\ phase' # "startup") => uIdx > Len(users)]_vars

\* C12: a call of the board listing endpoint changes no store and starts no
\* generation, and a call that directly follows another call for the same
\* owner returns, for every board both calls list, the same previous_headings.
C12_ProjectionPurity ==
    [][response'.op = "boards" =>
          /\ <<tokens, board_user_map, generated_docs>>' =
                 <<tokens, board_user_map, generated_docs>>
          /\ tasks' = tasks
          /\ (response.op = "boards" /\ response.user_id = response'.user_id) =>
                \A i \in 1..Len(response.boards), j \in 1..Len(response'.boards) :
                    response.boards[i].id = response'.boards[j].id =>
                        response.boards[i].previous_headings =
                            response'.boards[j].previous_headings]_vars

\* the listing has just returned a board with the headings of the document
\* generated for it, while another generation is in flight
C12_Witness ==
    /\ response.op = "boards" /\ response.status = "success"
    /\ \E i \in 1..Len(response.boards) :
          /\ response.boards[i].has_generated_doc
          /\ response.boards[i].previous_headings # <<>>
    /\ tasks # EmptyBag

\* C13: the registration endpoint issues a registration call for a board only
\* when the provider holds no registration for (callback_url, board_id), so a
\* repeated call creates none, and it answers with one outcome per board of
\* the owner.
C13_RegisterEndpointIdempotent ==
    [][(response'.op = "register" /\ response'.code = 200) =>
          /\ \A i \in 1..Len(response'.details) :
                RegistrationsFor(response'.details[i].board_id) = 0
          /\ Len(response'.details) =
                Len(get_user_generated_boards(board_user_map, response'.user_id))]_vars

\* the boards the provider returns for a token, as a set
Fetched(t) == {FetchBoards(t)[i] : i \in 1..Len(FetchBoards(t))}

\* C14: a token registration request with owner_id and provider_token whose
\* token save and board fetch succeed stores the credential for the owner,
\* leaves every fetched board whose upsert succeeded mapped to that owner, and
\* returns the number of those boards.
C14_SaveTokenSuccess ==
    [][\A user_id \in Users, trello_token \in Tokens, failing \in SUBSET Boards :
          trello_save_token(user_id, trello_token, TRUE, TRUE, failing) =>
              /\ response'.status = "success"
              /\ get_user_token(tokens', user_id) = trello_token
              /\ \A b \in Fetched(trello_token) \ failing :
                    OwnerOf(board_user_map', b) = user_id
              /\ response'.count = Cardinality(Fetched(trello_token) \ failing)]_vars

\* a token registration has just succeeded and mapped to the new owner a board
\* that another owner held
C14_Witness ==
    /\ response.op = "save_token" /\ response.status = "success"
    /\ response.count >= 1
    /\ \E b \in replaced : OwnerOf(board_user_map, b) = lastUpsert[b]
    /\ \E i \in 1..Len(tokens) :
          \A b \in replaced : tokens[i].user_id = OwnerOf(board_user_map, b)

\* the keys the read endpoint is called with
ReadKeys == Users \X RequestProjects \X Templates

\* C15: a generation started by a read that fails answers the caller with a
\* structured error and stores nothing, and a read of a key that has no
\* artifact (never generated, or generated only by failed attempts) invokes
\* the Generation Collaborator.
C15_NoNegativeCaching ==
    [][/\ (response'.op = "read" /\ response'.status = "error") =>
             /\ generated_docs' = generated_docs
             /\ BagCardinality(tasks') = BagCardinality(tasks) - 1
       /\ \A k \in ReadKeys :
             (RowsOf(k) = {} /\ get_generated_doc(k[1], k[2], k[3])) =>
                 InFlightFrom(k, "read")' = InFlightFrom(k, "read") + 1]_vars

\* a generation started by a read has just failed: the caller got the error,
\* the key has no artifact and no generation is left in flight
C15_Witness ==
    /\ response.op = "read" /\ response.status = "error"
    /\ generated_docs = <<>>
    /\ tasks = EmptyBag

\* the owners the Mapping Store holds for a board
OwnersOf(b) == {board_user_map[i].user_id : i \in MapRows(b)}

Served(k) ==
    LET i == FindDoc(generated_docs, k[1], k[2], k[3]) IN
    IF i = 0 THEN "" ELSE generated_docs[i].generated_docs

\* C17: no step changes, replaces or deletes a stored artifact: the rows the
\* Document Cache held before the step are its first rows after it, unchanged
\* (so find_one serves every key that had an artifact the same artifact).
C17_ArtifactImmutable ==
    [][/\ Len(generated_docs') >= Len(generated_docs)
       /\ SubSeq(generated_docs', 1, Len(generated_docs)) = generated_docs]_vars

\* a key whose artifact was stored first has gone through a second generation
\* and is still served its first artifact
C17_Witness ==
    \E k \in Keys :
        /\ Cardinality(RowsOf(k)) >= 2
        /\ Served(k) = ArtifactNames[1]

\* the response is the answer of the read endpoint to a hit
IsHit(r) == r.op = "read" /\ "generated_diagrams" \in DOMAIN r

\* C18: a read of a key that has an artifact starts no generation and writes
\* nothing to the Document Cache; it returns the stored diagrams with every
\* image re-encoded once as a data URI, so a read that directly follows a read
\* of the same artifact returns the same diagrams.
C18_HitReadOnly ==
    [][\A k \in ReadKeys :
          (RowsOf(k) # {} /\ get_generated_doc(k[1], k[2], k[3])) =>
              LET doc == generated_docs[FindDoc(generated_docs, k[1], k[2], k[3])] IN
              /\ tasks' = tasks
              /\ generated_docs' = generated_docs
              /\ IsHit(response')
              /\ response'.doc = doc.generated_docs
              /\ response'.generated_diagrams = EncodeDiagrams(doc.generated_diagrams)
              /\ (IsHit(response) /\ response.doc = response'.doc) =>
                    response'.generated_diagrams = response.generated_diagrams]_vars

\* a hit has just returned an artifact with an image: the returned image is
\* the data URI, the stored one the raw bytes
C18_Witness ==
    /\ IsHit(response)
    /\ \E i \in 1..Len(generated_docs) :
          /\ generated_docs[i].generated_docs = response.doc
          /\ "image" \in DOMAIN generated_docs[i].generated_diagrams.Overview
          /\ response.generated_diagrams.Overview.image =
                <<"data:image/png;base64,">> \o generated_docs[i].generated_diagrams.Overview.image
          /\ Len(generated_docs[i].generated_diagrams.Overview.image) = 1

\* C19: when the registration listing fails the sweep goes on to the
\* registration call for the same board of the same account, and the step the
\* sweep takes from there is that call.
C19_FailOpen ==
    [][/\ SweepListFail =>
             (phase' = "startup" /\ pc' = "register" /\ uIdx' = uIdx /\ bIdx' = bIdx)
       /\ (phase = "startup" /\ pc = "register") => SweepRegister]_vars

\* the listing has just failed for a board that is registered: the sweep
\* stands at the registration call for that board
C19_Witness ==
    /\ phase = "startup" /\ pc = "register"
    /\ ~existing.ok /\ ~curClean
    /\ trelloWebhooks[<<CurToken, CurBoard>>] > 0

\* C20: the sweep enters the inter-registration delay exactly in the steps
\* that are a registration call that created a registration.
C20_DelayOnlyAfterSuccess ==
    [][(phase = "startup" /\ pc # "sleep" /\ pc' = "sleep") <=>
          (phase = "startup" /\ pc = "register" /\ trelloWebhooks' # trelloWebhooks)]_vars

\* C21: no step removes a board from the Mapping Store: a board that has an
\* entry before a step has one after it.
C21_MappingsNeverDeleted ==
    [][\A b \in Boards : MapRows(b) # {} => MapRows(b)' # {}]_vars

\* a sweep has finished after a mapped board stopped being visible to every
\* account: the board is still mapped
C21_Witness ==
    /\ phase = "serving" /\ sweepStatus \in {"clean", "done"}
    /\ \E b \in Boards :
          /\ MapRows(b) # {}
          /\ \A t \in Tokens : b \notin trelloBoards[t]

\* the owners mapped to the board of an event, none when it names no board
EventOwners(p) ==
    IF BoardIdOf(p) \in Boards THEN OwnersOf(BoardIdOf(p)) ELSE {}

\* the notifications after a step are those before it followed by exactly one
\* notification for each of the owners
AppendsOnePer(owners) ==
    /\ Len(notifications') = Len(notifications) + Cardinality(owners)
    /\ SubSeq(notifications', 1, Len(notifications)) = notifications
    /\ \A u \in owners :
          \E i \in (Len(notifications) + 1)..Len(notifications') :
              notifications'[i].user_id = u

\* C22: the background processing of an event that carries an action, when no
\* write fails, appends exactly one notification per owner mapped to the
\* board of the event and leaves the earlier notifications as they are; the
\* handlers always acknowledge with 200 and no background step answers.
C22_NotificationPath ==
    [][/\ \A task \in BagToSet(background) :
             (/\ task.payload.action = "object"
              /\ process_trello_action(task, 0) \/ process_fake_action(task))
                 => AppendsOnePer(EventOwners(task.payload))
       /\ response'.op = "notify" => response'.code = 200
       /\ background' # background /\ BagCardinality(background') < BagCardinality(background)
             => response' = NoResponse]_vars

\* C23: no step of a sweep changes the Token Store or the Document Cache, and
\* every row the Mapping Store held before the step keeps its board_id and
\* its board_desc.
C23_SweepWritesOwnerAndName ==
    [][(phase = "startup" \/ phase' = "startup") =>
          /\ tokens' = tokens
          /\ generated_docs' = generated_docs
          /\ Len(board_user_map') >= Len(board_user_map)
          /\ \A i \in 1..Len(board_user_map) :
                /\ board_user_map'[i].board_id = board_user_map[i].board_id
                /\ board_user_map'[i].board_desc = board_user_map[i].board_desc]_vars

\* the sweep has just given a new owner to a board that the token
\* registration endpoint had mapped: the description stored then is still there
C23_Witness ==
    /\ phase = "startup" /\ pc = "list"
    /\ CurBoard \in replaced
    /\ \E i \in MapRows(CurBoard) :
          /\ board_user_map[i].user_id = CurUser
          /\ board_user_map[i].board_desc = BoardDesc(CurBoard)

\* C24: a token registration request answered with a structured error leaves
\* the Mapping Store unchanged; it leaves the Token Store unchanged when
\* owner_id or provider_token is missing, and when only the board fetch failed
\* the token it saved stays saved.
C24_SaveTokenErrors ==
    [][\A user_id \in Users \cup {""}, trello_token \in Tokens \cup {""},
         saveOk \in BOOLEAN, fetchOk \in BOOLEAN :
          (/\ trello_save_token(user_id, trello_token, saveOk, fetchOk, {})
           /\ response'.status = "error") =>
              /\ board_user_map' = board_user_map
              /\ (user_id = "" \/ trello_token = "") => tokens' = tokens
              /\ (user_id # "" /\ trello_token # "" /\ saveOk /\ ~fetchOk) =>
                    get_user_token(tokens', user_id) = trello_token]_vars

\* the board fetch has just failed for an owner whose token the request
\* replaced: the error is returned and the new token is the stored one
C24_Witness ==
    /\ response.op = "save_token" /\ response.message = "Failed to fetch boards"
    /\ \E i \in 1..Len(tokens) :
          /\ tokens[i].trello_token = "t2"
          /\ OwnerOf(board_user_map, "b1") = tokens[i].user_id
          /\ \A j \in 1..Len(board_user_map) : board_user_map[j].user_id = tokens[i].user_id
    /\ Len(tokens) = 1

\* C25: an event for a board b mapped to owner u starts one generation, for
\* the key (u, b, "default"), and changes no store; the rows that generations
\* started by events add to the Document Cache are stored under the key of
\* the board's owner and the "default" template, after the rows already there.
C25_WebhookKeyOnly ==
    [][/\ \A p \in Payloads :
             (/\ BoardIdOf(p) \in Boards
              /\ OwnerOf(board_user_map, BoardIdOf(p)) # ""
              /\ trello_webhook_event(p)) =>
                 /\ tasks' = tasks (+) SetToBag({Task(OwnerOf(board_user_map, BoardIdOf(p)),
                                                      BoardIdOf(p), "default", "webhook", FALSE)})
                 /\ <<tokens, board_user_map, generated_docs>>' =
                        <<tokens, board_user_map, generated_docs>>
       /\ Len(generated_docs') >= Len(generated_docs)
       /\ SubSeq(generated_docs', 1, Len(generated_docs)) = generated_docs
       /\ \A i \in (Len(generated_docs) + 1)..Len(generated_docs') :
             /\ generated_docs'[i].template_name = "default"
             /\ generated_docs'[i].user_id =
                    OwnerOf(board_user_map, generated_docs'[i].project_id)]_vars

\* an event has just been dispatched for a board whose key already holds an
\* artifact generated for an earlier event
C25_Witness ==
    /\ response.op = "webhook" /\ response.status = "success"
    /\ \E b \in Boards :
          /\ OwnerOf(board_user_map, b) # ""
          /\ RowsOf(<<OwnerOf(board_user_map, b), b, "default">>) # {}
          /\ InFlightFrom(<<OwnerOf(board_user_map, b), b, "default">>, "webhook") >= 1
          /\ Len(generated_docs) = Cardinality(RowsOf(<<OwnerOf(board_user_map, b), b, "default">>))

\* where the sweep stands: the account, then the board and the step within
\* the board (map, list, register, sleep)
PcRank == CASE pc = "board" -> 0 [] pc = "list" -> 1 [] pc = "register" -> 2
            [] pc = "sleep" -> 3 [] OTHER -> 0

SweepPos == IF pc = "user" THEN <<uIdx, 0>> ELSE <<uIdx, 4 * bIdx + PcRank>>

Before(p, q) == p[1] < q[1] \/ (p[1] = q[1] /\ p[2] < q[2])

\* C26: a sweep in progress ends (the process is serving, or down after an
\* uncaught storage error); every step of the sweep moves it forward over the
\* accounts read at its start, so no account is visited twice and no board
\* gets a second listing query or registration call; the accounts are distinct;
\* a sweep that finds no credential ends at once, with no provider call and no
\* store write.
C26_SweepTerminates ==
    /\ (phase = "startup") ~> (phase # "startup")
    /\ [](phase = "startup" =>
             \A i, j \in 1..Len(users) : users[i].user_id = users[j].user_id => i = j)
    /\ [][/\ (SweepStep /\ phase' = "startup") =>
                 /\ users' = users
                 /\ Before(SweepPos, SweepPos')
                 /\ (pc # "user" /\ pc' # "user") => boards' = boards
          /\ (phase = "startup" /\ trelloWebhooks' # trelloWebhooks) =>
                 /\ pc = "register"
                 /\ trelloWebhooks' = [trelloWebhooks EXCEPT ![<<CurToken, CurBoard>>] = @ + 1]
          /\ (Startup /\ tokens = <<>>) =>
                 /\ phase' = "serving"
                 /\ UNCHANGED <<dbVars, providerVars>>]_vars

\* a sweep over two accounts has ended although a listing query and a
\* registration call failed in it
C26_Witness ==
    /\ phase = "serving" /\ sweepStatus = "done"
    /\ Len(tokens) = 2
    /\ \E b \in Boards : lastUpsert[b] # ""
    /\ sweptHooks = trelloWebhooks
    /\ \E k \in Tokens \X Boards : trelloWebhooks[k] = 0 /\ k[2] \in trelloBoards[k[1]]

====
